---- MODULE Spec2Model ----
(***************************************************************************)
(* Model of the test-taking session engine of jee-test-app:                *)
(*   - the TestPage component (src/app/test/[attemptId]/page.tsx): the     *)
(*     per-question state machine, the countdown and the submission path;  *)
(*   - the record store it talks to (attempt row, answer responses), with  *)
(*     the asynchronous upserts it leaves in flight;                       *)
(*   - the two scoring engines (report page, calculate-score function)     *)
(*     and their two copies of the answer judge.                           *)
(*                                                                         *)
(* React semantics kept by the model: a handler reads the state of the     *)
(* render it was created in (isSubmitting, testState, currentQuestionIndex *)
(* are constants of that render); a setState call only queues an update.   *)
(* An update queued inside a click handler is rendered, and its effects    *)
(* are run, before the handler's event ends (so the step of a click        *)
(* handler includes that render); an update queued from a passive effect   *)
(* or after an await is rendered by a later task (the Render step).        *)
(***************************************************************************)
EXTENDS Integers, Sequences, FiniteSets, TLC

\* ------------------------------------------------------------------ bounds
NQ == 2            \* questions linked to the test
DurationSecs == 3  \* duration_minutes * 60 of the test, in ticks
MaxSaves == 3      \* answer upserts issued over a run
MaxLoads == 2      \* times the test page is opened for the attempt

\* ------------------------------------------------------------ JS values
JNull == [t |-> "null"]
JStr(s) == [t |-> "string", s |-> s]
\* What handleAnswerChange can be handed: an option id, or the text of the
\* numerical input, which is "" once the user empties it.
AnswerInputs == {JStr(<<>>), JStr(<<"A">>)}

JUndefined == [t |-> "undefined"]
\* A finite number, held in thousandths (JNum(9995) is 9.995); the inputs of
\* the model have at most three fractional digits.
JNum(n) == [t |-> "number", n |-> n]
JNaN == [t |-> "nan"]
JArr(a) == [t |-> "array", a |-> a]

Digits == <<"0", "1", "2", "3", "4", "5", "6", "7", "8", "9">>
IsDigit(c) == \E i \in 1..10 : Digits[i] = c
DigitValue(c) == (CHOOSE i \in 1..10 : Digits[i] = c) - 1
Thousand == 10 * 10 * 10
Abs(x) == IF x < 0 THEN -x ELSE x

RECURSIVE NatToChars(_)
NatToChars(k) ==
    IF k < 10 THEN <<Digits[k + 1]>>
    ELSE NatToChars(k \div 10) \o <<Digits[(k % 10) + 1]>>

\* The fractional digits of f thousandths, without trailing zeros.
FracToChars(f) ==
    LET d1 == f \div 100
        d2 == (f \div 10) % 10
        d3 == f % 10
    IN IF d3 # 0 THEN <<Digits[d1 + 1], Digits[d2 + 1], Digits[d3 + 1]>>
       ELSE IF d2 # 0 THEN <<Digits[d1 + 1], Digits[d2 + 1]>>
       ELSE <<Digits[d1 + 1]>>

\* Number.prototype.toString of a finite number.
NumToChars(n) ==
    (IF n < 0 THEN <<"-">> ELSE <<>>)
    \o NatToChars(Abs(n) \div Thousand)
    \o (IF Abs(n) % Thousand = 0 THEN <<>>
        ELSE <<".">> \o FracToChars(Abs(n) % Thousand))

RECURSIVE JoinChars(_)
\* String(v) as a sequence of characters. An array joins the strings of its
\* elements with commas, null and undefined elements giving "".
RECURSIVE ToChars(_)
ToChars(v) ==
    CASE v.t = "string" -> v.s
      [] v.t = "number" -> NumToChars(v.n)
      [] v.t = "nan" -> <<"N", "a", "N">>
      [] v.t = "null" -> <<"n", "u", "l", "l">>
      [] v.t = "undefined" -> <<"u", "n", "d", "e", "f", "i", "n", "e", "d">>
      [] v.t = "array" -> JoinChars(v.a)

JoinChars(a) ==
    IF Len(a) = 0 THEN <<>>
    ELSE (IF a[1].t \in {"null", "undefined"} THEN <<>> ELSE ToChars(a[1]))
         \o (IF Len(a) = 1 THEN <<>> ELSE <<",">> \o JoinChars(Tail(a)))

String(v) == JStr(ToChars(v))

RECURSIVE SkipSpaces(_)
SkipSpaces(cs) ==
    IF Len(cs) > 0 /\ cs[1] = " " THEN SkipSpaces(Tail(cs)) ELSE cs

RECURSIVE DigitPrefixLen(_)
DigitPrefixLen(cs) ==
    IF Len(cs) > 0 /\ IsDigit(cs[1]) THEN 1 + DigitPrefixLen(Tail(cs)) ELSE 0

RECURSIVE DigitsToNat(_)
DigitsToNat(ds) ==
    IF Len(ds) = 0 THEN 0
    ELSE DigitsToNat(SubSeq(ds, 1, Len(ds) - 1)) * 10 + DigitValue(ds[Len(ds)])

\* Fraction digits as thousandths (the first three digits).
FracToThousandths(ds) ==
    (IF Len(ds) >= 1 THEN DigitValue(ds[1]) * 100 ELSE 0)
    + (IF Len(ds) >= 2 THEN DigitValue(ds[2]) * 10 ELSE 0)
    + (IF Len(ds) >= 3 THEN DigitValue(ds[3]) ELSE 0)

\* The number a digit string, an optional "." and a digit string stand for,
\* given the lengths of the two digit strings; NaN when both are empty.
DecimalValue(body, nInt, nFrac) ==
    IF nInt = 0 /\ nFrac = 0 THEN JNaN
    ELSE JNum(DigitsToNat(SubSeq(body, 1, nInt)) * Thousand
              + FracToThousandths(SubSeq(body, nInt + 2, nInt + 1 + nFrac)))

\* The longest prefix of body that is an unsigned decimal literal.
ParseUnsigned(body) ==
    DecimalValue(body, DigitPrefixLen(body),
        IF DigitPrefixLen(body) < Len(body)
           /\ body[DigitPrefixLen(body) + 1] = "."
        THEN DigitPrefixLen(SubSeq(body, DigitPrefixLen(body) + 2, Len(body)))
        ELSE 0)

Negate(x) == IF x = JNaN THEN JNaN ELSE JNum(-x.n)

ParseSigned(cs) ==
    IF Len(cs) > 0 /\ cs[1] = "-" THEN Negate(ParseUnsigned(Tail(cs)))
    ELSE IF Len(cs) > 0 /\ cs[1] = "+" THEN ParseUnsigned(Tail(cs))
    ELSE ParseUnsigned(cs)

\* parseFloat: the argument as a string, leading blanks skipped, then the
\* longest prefix that is a decimal literal (sign, digits, fraction); NaN when
\* there is none. The inputs of the model hold no exponent and no Infinity.
parseFloat(v) == ParseSigned(SkipSpaces(ToChars(v)))

IsArray(v) == v.t = "array"

\* 0.01, in thousandths. No two numbers of the model's inputs lie exactly
\* 0.01 apart, where the rounding of the doubles would decide the comparison.
Tolerance == 10

\* ----------------------------------------------------- the answer judges
\* The NUMERICAL branch comparing the signed difference (no Math.abs).
NumericalReport_NoAbs(selectedNum, correctNum) ==
    IF selectedNum = JNaN \/ correctNum = JNaN
    THEN FALSE
    ELSE correctNum.n - selectedNum.n < Tolerance

\* The NUMERICAL branch of the report's judge, after the two parseFloat.
NumericalReport(selectedNum, correctNum) ==
    IF selectedNum = JNaN \/ correctNum = JNaN
    THEN FALSE
    ELSE Abs(correctNum.n - selectedNum.n) < Tolerance

\* The report's judge without its first check (no answer selected).
isAnswerCorrectReport_NoEmptyCheck(qType, selected, correct) ==
    IF ~IsArray(correct) \/ Len(correct.a) = 0
    THEN FALSE
    ELSE IF qType = "SINGLE_CHOICE"
    THEN String(selected) = String(correct.a[1])
    ELSE IF qType = "NUMERICAL"
    THEN NumericalReport(parseFloat(selected), parseFloat(correct.a[1]))
    ELSE FALSE

\* The report's judge comparing as for SINGLE_CHOICE under any other type.
isAnswerCorrectReport_AnyType(qType, selected, correct) ==
    IF selected = JNull \/ selected = JUndefined \/ selected = JStr(<<>>)
    THEN FALSE
    ELSE IF ~IsArray(correct) \/ Len(correct.a) = 0
    THEN FALSE
    ELSE IF qType = "NUMERICAL"
    THEN NumericalReport(parseFloat(selected), parseFloat(correct.a[1]))
    ELSE String(selected) = String(correct.a[1])

\* isAnswerCorrect of the report page.
isAnswerCorrectReport(qType, selected, correct) ==
    IF selected = JNull \/ selected = JUndefined \/ selected = JStr(<<>>)
    THEN FALSE
    ELSE IF ~IsArray(correct) \/ Len(correct.a) = 0
    THEN FALSE
    ELSE IF qType = "SINGLE_CHOICE"
    THEN String(selected) = String(correct.a[1])
    ELSE IF qType = "NUMERICAL"
    THEN NumericalReport(parseFloat(selected), parseFloat(correct.a[1]))
    ELSE FALSE

\* The NUMERICAL branch of the server's judge, after the two parseFloat.
NumericalServer(selectedNum, correctNum) ==
    IF selectedNum = JNaN \/ correctNum = JNaN
    THEN FALSE
    ELSE Abs(correctNum.n - selectedNum.n) < Tolerance

\* The copy of the judge the calculate-score function uses, compared with
\* strict equality instead of String() equality.
isAnswerCorrectServer_Strict(qType, selected, correct) ==
    IF selected = JNull \/ selected = JUndefined \/ selected = JStr(<<>>)
    THEN FALSE
    ELSE IF ~IsArray(correct) \/ Len(correct.a) = 0
    THEN FALSE
    ELSE IF qType = "SINGLE_CHOICE"
    THEN selected = correct.a[1]
    ELSE IF qType = "NUMERICAL"
    THEN NumericalServer(parseFloat(selected), parseFloat(correct.a[1]))
    ELSE FALSE

\* The server's judge accepting a match with any element of the key.
isAnswerCorrectServer_AnyElement(qType, selected, correct) ==
    IF selected = JNull \/ selected = JUndefined \/ selected = JStr(<<>>)
    THEN FALSE
    ELSE IF ~IsArray(correct) \/ Len(correct.a) = 0
    THEN FALSE
    ELSE IF qType = "SINGLE_CHOICE"
    THEN \E i \in 1..Len(correct.a) : String(selected) = String(correct.a[i])
    ELSE IF qType = "NUMERICAL"
    THEN NumericalServer(parseFloat(selected), parseFloat(correct.a[1]))
    ELSE FALSE

\* isAnswerCorrect of the calculate-score function.
isAnswerCorrectServer(qType, selected, correct) ==
    IF selected = JNull \/ selected = JUndefined \/ selected = JStr(<<>>)
    THEN FALSE
    ELSE IF ~IsArray(correct) \/ Len(correct.a) = 0
    THEN FALSE
    ELSE IF qType = "SINGLE_CHOICE"
    THEN String(selected) = String(correct.a[1])
    ELSE IF qType = "NUMERICAL"
    THEN NumericalServer(parseFloat(selected), parseFloat(correct.a[1]))
    ELSE FALSE

QIds == 1..NQ
NoUser == "none"
NoRow == [t |-> "norow"]

\* !v of JavaScript, for the values of the model (objects and arrays are
\* truthy).
Falsy(v) ==
    v \in {JNull, JUndefined, JStr(<<>>), JNum(0), JNaN}

\* v || null
OrNull(v) == IF Falsy(v) THEN JNull ELSE v

\* --------------------------------------------------- the questions table
\* type, subject ("" for none) and answer key of the questions a test may
\* link.
QuestionKinds ==
    {[question_type |-> "SINGLE_CHOICE", subject |-> "physics",
      correct_answer |-> JArr(<<JStr(<<"A">>)>>)],
     [question_type |-> "NUMERICAL", subject |-> "Physics",
      correct_answer |-> JArr(<<JNum(10 * Thousand)>>)],
     [question_type |-> "SINGLE_CHOICE", subject |-> "",
      correct_answer |-> JArr(<<JStr(<<"B">>)>>)]}

\* The Questions rows with id qId.
QuestionRows(qId) ==
    {[t |-> "object", question_id |-> qId,
      question_type |-> k.question_type, subject |-> k.subject,
      correct_answer |-> k.correct_answer] : k \in QuestionKinds}

\* What the embedded select Questions(..) of a link row can hold: nothing,
\* the joined row as an object, or an array of the joined rows.
JoinShapes(qId) ==
    {JNull, JArr(<<>>)}
    \cup QuestionRows(qId)
    \cup {JArr(<<q>>) : q \in QuestionRows(qId)}

LinkRows(n) ==
    {[question_number |-> n, Questions |-> j] : j \in JoinShapes(n)}

\* The selected_answer values a stored response may hold.
StoredAnswers ==
    {JNull, JStr(<<>>), JStr(<<"A">>), JStr(<<"9", ".", "9", "9", "5">>),
     JNum(0)}

StoredRows ==
    {NoRow} \cup {[t |-> "row", selected_answer |-> a, action |-> "answered"]
                  : a \in StoredAnswers}

\* String.prototype.toUpperCase, on the subjects of QuestionKinds.
toUpperCase(s) ==
    CASE s = "physics" -> "PHYSICS"
      [] s = "Physics" -> "PHYSICS"
      [] OTHER -> s

VARIABLES
    sessionUser,          \* supabase.auth session: NoUser or a user id
    page,                 \* route shown: dashboard | test | report | login
    inst,                 \* which mount of TestPage is on screen (0: none yet)
    questions,            \* useState questions: sequence of question ids
    timeLeft,             \* useState timeLeft
    currentQuestionIndex, \* useState currentQuestionIndex (0-based)
    testState,            \* useState testState: question id -> QuestionState
    testStateRef,         \* testStateRef.current
    loading,              \* useState loading
    isSubmitting,         \* isSubmitting as seen by the committed render
    isSubmittingState,    \* isSubmitting with the queued updates applied
    timerEffectRan,       \* the timer effect has run for the committed deps
    attempt,              \* the User_Test_Attempts row (NoRow before insert)
    completedWrites,      \* how many COMPLETED/end_time updates were applied
    responses,            \* User_Answer_Responses: question id -> row | NoRow
    inflight,             \* upserts issued and not yet answered by the store
    nIssued,              \* how many upserts have been issued
    lastIssued,           \* question id -> payload of its latest upsert | NoRow
    saveFailed,           \* some upsert was rejected by the store
    submissions,          \* invocations of handleSubmitTest past the confirm
    updateRejected,       \* some update of the attempt row was rejected
    links,                \* the Test_Questions_Link rows with their joined Questions
    reportData,           \* report page: useState reportData (NoRow: null)
    error,                \* report page: useState error is set
    response,             \* the last Response of calculate-score (NoRow: none)
    judgeCase,            \* a (question_type, selected, correct) triple to judge
    verdictReport,        \* what the report's judge returned for it (<<>>: not run)
    verdictServer         \* what the server's judge returned for it

vars == <<sessionUser, page, inst, questions, timeLeft, currentQuestionIndex,
          testState, testStateRef, loading, isSubmitting, isSubmittingState,
          timerEffectRan, attempt, completedWrites, responses, inflight,
          nIssued, lastIssued, saveFailed, submissions, updateRejected,
          links, reportData, error, response, judgeCase, verdictReport,
          verdictServer>>

storeVars == <<attempt, completedWrites, responses, updateRejected>>
saveVars == <<inflight, nIssued, lastIssued, saveFailed>>
judgeVars == <<judgeCase, verdictReport, verdictServer>>
scoreVars == <<links, reportData, error, response, judgeVars>>
uiVars == <<questions, timeLeft, currentQuestionIndex, testState, testStateRef,
            loading, isSubmitting, isSubmittingState, timerEffectRan>>

\* --------------------------------------------------------- page helpers
\* const [..] = useState(..) of a fresh TestPage mount.
MountTestPage ==
    /\ questions' = <<>>
    /\ timeLeft' = DurationSecs
    /\ currentQuestionIndex' = 0
    /\ testState' = <<>>
    /\ testStateRef' = <<>>
    /\ loading' = TRUE
    /\ isSubmitting' = FALSE
    /\ isSubmittingState' = FALSE
    /\ timerEffectRan' = FALSE

\* getQuestionState answering with its default for every question.
getQuestionState_DefaultOnly(ts, qId) ==
    [status |-> "not_visited", selected_answer |-> JNull]

getQuestionState(ts, qId) ==
    IF qId \in DOMAIN ts
    THEN ts[qId]
    ELSE [status |-> "not_visited", selected_answer |-> JNull]

\* No test page has been mounted and no request has been made.
NothingMounted ==
    /\ inst = 0
    /\ questions = <<>>
    /\ timeLeft = DurationSecs
    /\ currentQuestionIndex = 0
    /\ testState = <<>>
    /\ testStateRef = <<>>
    /\ loading = TRUE
    /\ isSubmitting = FALSE
    /\ isSubmittingState = FALSE
    /\ timerEffectRan = FALSE
    /\ inflight = {}
    /\ nIssued = 0
    /\ lastIssued = [q \in QIds |-> NoRow]
    /\ saveFailed = FALSE
    /\ submissions = {}
    /\ updateRejected = FALSE

\* No report has been computed and no score requested.
NothingScored ==
    /\ reportData = NoRow
    /\ error = FALSE
    /\ response = NoRow

NothingJudged ==
    /\ judgeCase = NoRow
    /\ verdictReport = <<>>
    /\ verdictServer = <<>>

\* The link rows of a test whose Questions are joined as single objects.
ObjectLinks ==
    [n \in 1..NQ |->
        [question_number |-> n,
         Questions |-> CHOOSE q \in QuestionRows(n) :
                          q.question_type = "SINGLE_CHOICE"
                          /\ q.subject = "physics"]]

\* The dashboard of a user (or of nobody), before a test is started.
Init ==
    /\ sessionUser \in {NoUser, "u1"}
    /\ page = "dashboard"
    /\ attempt = NoRow
    /\ completedWrites = 0
    /\ responses = [q \in QIds |-> NoRow]
    /\ links = ObjectLinks
    /\ NothingMounted
    /\ NothingScored
    /\ NothingJudged

\* Dashboard: create the attempt and open the test page.
handleStartTest(insertOk) ==
    /\ page = "dashboard"
    /\ attempt = NoRow
    /\ IF sessionUser = NoUser
       THEN /\ page' = "login"
            /\ UNCHANGED <<inst, uiVars, storeVars>>
       ELSE IF insertOk
       THEN /\ attempt' = [t |-> "row", user_id |-> sessionUser,
                           status |-> "STARTED", end_time |-> 0,
                           final_score |-> JNull]
            /\ page' = "test"
            /\ inst' = inst + 1
            /\ MountTestPage
            /\ UNCHANGED <<completedWrites, responses, updateRejected>>
       ELSE UNCHANGED <<page, inst, uiVars, storeVars>>
    /\ UNCHANGED <<scoreVars, sessionUser, saveVars, submissions>>

\* The test page is opened for the attempt again (a link, the browser's back
\* button, the URL): a fresh mount of the component.
OpenTestPage ==
    /\ attempt # NoRow
    /\ page \in {"report", "dashboard"}
    /\ inst < MaxLoads
    /\ page' = "test"
    /\ inst' = inst + 1
    /\ MountTestPage
    /\ UNCHANGED <<scoreVars, sessionUser, storeVars, saveVars, submissions>>

\* The initial state without the promotion of the first question.
InitialTestState_AllNotVisited(fetched) ==
    [q \in {fetched[i] : i \in 1..Len(fetched)} |->
        [status |-> "not_visited", selected_answer |-> JNull]]

\* The state fetchTestData builds for the fetched questions.
InitialTestState(fetched) ==
    [q \in {fetched[i] : i \in 1..Len(fetched)} |->
        [status |-> IF Len(fetched) > 0 /\ q = fetched[1]
                    THEN "unanswered" ELSE "not_visited",
         selected_answer |-> JNull]]

\* questionLinks.map(..).filter(q => q.question_id): the ids of the links
\* whose Questions is a single object, in question_number order (0 stands
\* for the '' given to the other links, which the filter drops).
RECURSIVE fetchedQuestions(_)
fetchedQuestions(questionLinks) ==
    IF Len(questionLinks) = 0 THEN <<>>
    ELSE LET link == Head(questionLinks)
             qData == IF ~Falsy(link.Questions) /\ ~IsArray(link.Questions)
                      THEN link.Questions ELSE JNull
             question_id == IF qData = JNull THEN 0 ELSE qData.question_id
         IN (IF question_id # 0 THEN <<question_id>> ELSE <<>>)
            \o fetchedQuestions(Tail(questionLinks))

\* The data fetching effect. attemptOk / questionsOk: the two selects succeed.
fetchTestData(attemptOk, questionsOk) ==
    /\ page = "test"
    /\ loading
    /\ IF sessionUser = NoUser
       THEN /\ page' = "login"
            /\ UNCHANGED uiVars
       ELSE IF ~attemptOk \/ attempt = NoRow \/ attempt.user_id # sessionUser
       THEN /\ page' = "dashboard"
            /\ UNCHANGED uiVars
       ELSE IF ~questionsOk
       THEN /\ timeLeft' = DurationSecs
            /\ UNCHANGED <<page, questions, currentQuestionIndex, testState,
                           testStateRef, loading, isSubmitting,
                           isSubmittingState, timerEffectRan>>
       ELSE LET fetched == fetchedQuestions(links)
            IN /\ timeLeft' = DurationSecs
               /\ questions' = fetched
               /\ testState' = InitialTestState(fetched)
               /\ testStateRef' = InitialTestState(fetched)
               /\ loading' = FALSE
               /\ timerEffectRan' = FALSE
               /\ UNCHANGED <<page, currentQuestionIndex, isSubmitting,
                              isSubmittingState>>
    /\ UNCHANGED <<scoreVars, sessionUser, inst, storeVars, saveVars, submissions>>

\* The page renders the test UI (not the spinner, not the no-questions error).
Active == page = "test" /\ ~loading /\ Len(questions) > 0

\* The run is cut once MaxSaves upserts have been issued: from then on the
\* model only lets the requests in flight finish.
RunOpen == nIssued < MaxSaves

\* ------------------------------------------------------ saving an answer
\* type AnswerStatus
AnswerStatuses == {"not_visited", "unanswered", "answered", "marked_for_review"}

\* The status written as it is held.
dbAction_Raw(status) == status

dbAction(status) == IF status = "not_visited" THEN "unanswered" ELSE status

\* The upsert saveAnswerToDB builds for qId from the ref; NoRow when the ref
\* holds no state for qId and the function returns without a request.
UpsertOf(qId) ==
    IF qId \notin DOMAIN testStateRef
    THEN NoRow
    ELSE [t |-> "row",
          selected_answer |-> testStateRef[qId].selected_answer,
          action |-> dbAction(testStateRef[qId].status)]

\* saveAnswerToDB up to its await: the request leaves, numbered in issue
\* order.
saveAnswerToDB(qId) ==
    IF UpsertOf(qId) = NoRow
    THEN UNCHANGED saveVars
    ELSE /\ RunOpen
         /\ inflight' = inflight \cup
                {[id |-> nIssued + 1, question_id |-> qId,
                  row |-> UpsertOf(qId)]}
         /\ nIssued' = nIssued + 1
         /\ lastIssued' = [lastIssued EXCEPT ![qId] = UpsertOf(qId)]
         /\ UNCHANGED saveFailed

\* The store's answer handled with a retry: a rejected upsert is issued again.
UpsertResolves_Retry(e, ok) ==
    /\ e \in inflight
    /\ inflight' = IF ok THEN inflight \ {e}
                   ELSE (inflight \ {e}) \cup {[e EXCEPT !.id = nIssued + 1]}
    /\ nIssued' = IF ok THEN nIssued ELSE nIssued + 1
    /\ responses' = IF ok THEN [responses EXCEPT ![e.question_id] = e.row]
                    ELSE responses
    /\ saveFailed' = (saveFailed \/ ~ok)
    /\ submissions' =
          {IF s.save = e.id
           THEN [s EXCEPT !.saved = IF ok THEN "ok" ELSE "failed"] ELSE s
           : s \in submissions}
    /\ UNCHANGED <<scoreVars, sessionUser, page, inst, uiVars, attempt, completedWrites,
                   updateRejected, lastIssued>>

\* The store answers an upsert in flight: applied (insert or overwrite by key)
\* or rejected. Requests are answered in no particular order. A submission
\* awaiting this upsert resumes; saveAnswerToDB has logged the error, if any,
\* and hands nothing back to it.
UpsertResolves(e, ok) ==
    /\ e \in inflight
    /\ inflight' = inflight \ {e}
    /\ responses' = IF ok THEN [responses EXCEPT ![e.question_id] = e.row]
                    ELSE responses
    /\ saveFailed' = (saveFailed \/ ~ok)
    /\ submissions' =
          {IF s.save = e.id
           THEN [s EXCEPT !.saved = IF ok THEN "ok" ELSE "failed"] ELSE s
           : s \in submissions}
    /\ UNCHANGED <<scoreVars, sessionUser, page, inst, uiVars, attempt, completedWrites,
                   updateRejected, nIssued, lastIssued>>

\* ----------------------------------------------------------- navigation
\* navigateToQuestion guarding only against the current index.
navigateToQuestion_NoBounds(prev, newIndex) ==
    IF newIndex = currentQuestionIndex
    THEN /\ testState' = prev
         /\ testStateRef' = prev
         /\ UNCHANGED <<currentQuestionIndex, saveVars>>
    ELSE LET oldQId == questions[currentQuestionIndex + 1]
         IN /\ saveAnswerToDB(oldQId)
            /\ testState' = prev
            /\ testStateRef' = prev
            /\ currentQuestionIndex' = newIndex

\* navigateToQuestion, called by a handler that has queued `prev` as the next
\* testState; testState and currentQuestionIndex are the handler's render's.
\* The step ends with the render of the queued state and the ref effect.
navigateToQuestion(prev, newIndex) ==
    IF newIndex < 0 \/ newIndex >= Len(questions)
       \/ newIndex = currentQuestionIndex
    THEN /\ testState' = prev
         /\ testStateRef' = prev
         /\ UNCHANGED <<currentQuestionIndex, saveVars>>
    ELSE LET oldQId == questions[currentQuestionIndex + 1]
             newQId == questions[newIndex + 1]
             newState == getQuestionState(testState, newQId)
             next == IF newState.status = "not_visited"
                     THEN [prev EXCEPT ![newQId] =
                              [newState EXCEPT !.status = "unanswered"]]
                     ELSE prev
         IN /\ saveAnswerToDB(oldQId)
            /\ testState' = next
            /\ testStateRef' = next
            /\ currentQuestionIndex' = newIndex

navFrame == <<scoreVars, sessionUser, page, inst, questions, timeLeft, loading,
              isSubmitting, isSubmittingState, timerEffectRan, storeVars,
              submissions>>

handleSaveAndNext ==
    /\ Active
    /\ navigateToQuestion(testState, currentQuestionIndex + 1)
    /\ UNCHANGED navFrame

jumpToQuestion(index) ==
    /\ Active
    /\ navigateToQuestion(testState, index)
    /\ UNCHANGED navFrame

\* The updater handleMarkForReview queues for the active question.
MarkUpdater(prevState, qId) ==
    [prevState EXCEPT ![qId] =
        [getQuestionState(prevState, qId) EXCEPT !.status = "marked_for_review"]]

handleMarkForReview ==
    /\ Active
    /\ RunOpen
    /\ LET qId == questions[currentQuestionIndex + 1]
       IN navigateToQuestion(MarkUpdater(testState, qId),
                             currentQuestionIndex + 1)
    /\ UNCHANGED navFrame

\* The updater resetting the status and keeping the answer.
ClearUpdater_StatusOnly(prevState, qId) ==
    [prevState EXCEPT ![qId] =
        [getQuestionState(prevState, qId) EXCEPT !.status = "unanswered"]]

ClearUpdater(prevState, qId) ==
    [prevState EXCEPT ![qId] =
        [getQuestionState(prevState, qId) EXCEPT !.status = "unanswered",
                                                 !.selected_answer = JNull]]

handleClearResponse ==
    /\ Active
    /\ RunOpen
    /\ LET qId == questions[currentQuestionIndex + 1]
       IN /\ testState' = ClearUpdater(testState, qId)
          /\ testStateRef' = ClearUpdater(testState, qId)
    /\ UNCHANGED <<currentQuestionIndex, saveVars>>
    /\ UNCHANGED navFrame

\* The status derived with the test against null alone.
AnswerStatus_NullOnly(selectedOption) ==
    IF selectedOption # JNull THEN "answered" ELSE "unanswered"

AnswerStatus(selectedOption) ==
    IF selectedOption # JNull /\ selectedOption # JStr(<<>>)
    THEN "answered" ELSE "unanswered"

\* The updater keeping a marked_for_review status across the edit.
AnswerUpdater_KeepMark(prevState, qId, selectedOption) ==
    [prevState EXCEPT ![qId] =
        [getQuestionState(prevState, qId) EXCEPT
            !.selected_answer = selectedOption,
            !.status = IF @ = "marked_for_review" THEN @
                       ELSE AnswerStatus(selectedOption)]]

AnswerUpdater(prevState, qId, selectedOption) ==
    [prevState EXCEPT ![qId] =
        [getQuestionState(prevState, qId) EXCEPT
            !.selected_answer = selectedOption,
            !.status = AnswerStatus(selectedOption)]]

handleAnswerChange(selectedOption) ==
    /\ Active
    /\ RunOpen
    /\ LET qId == questions[currentQuestionIndex + 1]
       IN /\ testState' = AnswerUpdater(testState, qId, selectedOption)
          /\ testStateRef' = AnswerUpdater(testState, qId, selectedOption)
    /\ UNCHANGED <<currentQuestionIndex, saveVars>>
    /\ UNCHANGED navFrame

\* ------------------------------------------------------------- the timer
\* The interval callback of an effect that does not look at isSubmitting.
Tick_WhileSubmitting ==
    /\ page = "test"
    /\ RunOpen
    /\ ~loading
    /\ timeLeft > 0
    /\ timeLeft' = timeLeft - 1
    /\ timerEffectRan' = FALSE
    /\ UNCHANGED <<scoreVars, sessionUser, page, inst, questions, currentQuestionIndex,
                   testState, testStateRef, loading, isSubmitting,
                   isSubmittingState, storeVars, saveVars, submissions>>

\* One interval callback of the timer effect (setTimeLeft(prev => prev - 1))
\* and the render that follows it. The effect installs the interval only when
\* its render is loaded, not submitting and has timeLeft > 0.
Tick ==
    /\ page = "test"
    /\ RunOpen
    /\ ~loading
    /\ ~isSubmitting
    /\ timeLeft > 0
    /\ timeLeft' = timeLeft - 1
    /\ timerEffectRan' = FALSE
    /\ UNCHANGED <<scoreVars, sessionUser, page, inst, questions, currentQuestionIndex,
                   testState, testStateRef, loading, isSubmitting,
                   isSubmittingState, storeVars, saveVars, submissions>>

\* ------------------------------------------------------------ submission
\* handleSubmitTest up to its first await, run by the render whose
\* isSubmitting is the variable isSubmitting. confirmSubmit: the answer to
\* window.confirm. The rendered flag and the effect flag are the caller's.
handleSubmitTest(confirmSubmit) ==
    IF isSubmitting \/ ~confirmSubmit
    THEN UNCHANGED <<isSubmittingState, saveVars, submissions>>
    ELSE LET currentQId == questions[currentQuestionIndex + 1]
         IN /\ isSubmittingState' = TRUE
            /\ saveAnswerToDB(currentQId)
            /\ submissions' = submissions \cup
                   {[inst |-> inst,
                     save |-> IF nIssued' = nIssued THEN 0 ELSE nIssued',
                     saved |-> IF nIssued' = nIssued THEN "ok" ELSE "pending"]}

\* The user clicks Submit Test (enabled while the render's isSubmitting is
\* false). The queued setIsSubmitting(true) is rendered before the event ends.
SubmitClick(confirmSubmit) ==
    /\ Active
    /\ ~isSubmitting
    /\ handleSubmitTest(confirmSubmit)
    /\ isSubmitting' = isSubmittingState'
    /\ timerEffectRan' = IF isSubmitting' = isSubmitting
                         THEN timerEffectRan ELSE FALSE
    /\ UNCHANGED <<scoreVars, sessionUser, page, inst, questions, timeLeft,
                   currentQuestionIndex, testState, testStateRef, loading,
                   storeVars>>

\* The timer effect of a render with timeLeft <= 0: it calls handleSubmitTest
\* and installs no interval. It runs once per change of its dependencies.
\* The setIsSubmitting(true) it queues is rendered by a later task.
TimerExpires(confirmSubmit) ==
    /\ page = "test"
    /\ ~loading
    /\ ~isSubmitting
    /\ timeLeft <= 0
    /\ ~timerEffectRan
    /\ handleSubmitTest(confirmSubmit)
    /\ timerEffectRan' = TRUE
    /\ UNCHANGED <<scoreVars, sessionUser, page, inst, questions, timeLeft,
                   currentQuestionIndex, testState, testStateRef, loading,
                   isSubmitting, storeVars>>

\* React renders an isSubmitting update queued outside a click handler.
Render ==
    /\ page = "test"
    /\ isSubmitting # isSubmittingState
    /\ isSubmitting' = isSubmittingState
    /\ timerEffectRan' = FALSE
    /\ UNCHANGED <<scoreVars, sessionUser, page, inst, questions, timeLeft,
                   currentQuestionIndex, testState, testStateRef, loading,
                   isSubmittingState, storeVars, saveVars, submissions>>

\* The awaited final save of submission s has been answered.
FinalSaveAnswered(s) == s.saved # "pending"

\* The error branch without its setIsSubmitting(false).
RollbackSubmitting_Missing(s) == isSubmittingState

\* setIsSubmitting(false) of a submission whose update was rejected: it acts
\* on the mounted component the submission belongs to.
RollbackSubmitting(s) ==
    IF page = "test" /\ s.inst = inst THEN FALSE ELSE isSubmittingState

\* handleSubmitTest after `await saveAnswerToDB`: the update of the attempt
\* row, the store's answer (updateOk) and what follows it.
SubmitUpdate(s, updateOk) ==
    /\ s \in submissions
    /\ FinalSaveAnswered(s)
    /\ submissions' = submissions \ {s}
    /\ IF updateOk
       THEN /\ attempt' = [attempt EXCEPT !.status = "COMPLETED",
                                          !.end_time = completedWrites + 1]
            /\ completedWrites' = completedWrites + 1
            /\ page' = "report"
            /\ UNCHANGED <<isSubmittingState, updateRejected>>
       ELSE /\ isSubmittingState' = RollbackSubmitting(s)
            /\ updateRejected' = TRUE
            /\ UNCHANGED <<attempt, completedWrites, page>>
    /\ UNCHANGED <<scoreVars, sessionUser, inst, questions, timeLeft,
                   currentQuestionIndex, testState, testStateRef, loading,
                   isSubmitting, timerEffectRan, responses, saveVars>>

\* ------------------------------------------------------ the report page
\* answerMap.get(question_id) of the map built from the stored responses.
answerMapGet(answerMap, question_id) ==
    IF answerMap[question_id] = NoRow THEN JUndefined
    ELSE answerMap[question_id].selected_answer

newReportData ==
    [totalScore |-> 0, totalCorrect |-> 0, totalIncorrect |-> 0,
     totalUnattempted |-> 0, subjectStats |-> <<>>, questions |-> <<>>]

newSubjectStats == [correct |-> 0, incorrect |-> 0, unattempted |-> 0, score |-> 0]

\* The question the report's loop scores for a link: the first element of a
\* non-empty Questions array; JUndefined when the loop skips the link.
ReportQuestion(link) ==
    IF Falsy(link.Questions) \/ ~IsArray(link.Questions)
       \/ Len(link.Questions.a) = 0
    THEN JUndefined
    ELSE link.Questions.a[1]

CountUnattempted(r, subject) ==
    [r EXCEPT !.totalUnattempted = @ + 1,
              !.subjectStats[subject].unattempted = @ + 1]

CountCorrect(r, subject) ==
    [r EXCEPT !.totalCorrect = @ + 1,
              !.subjectStats[subject].correct = @ + 1]

\* The INCORRECT branch with the subject's counter left alone.
CountIncorrect_TotalOnly(r, subject) ==
    [r EXCEPT !.totalIncorrect = @ + 1]

CountIncorrect(r, subject) ==
    [r EXCEPT !.totalIncorrect = @ + 1,
              !.subjectStats[subject].incorrect = @ + 1]

\* The status the report gives a question for the answer it found.
ReportStatus(q, selected_answer) ==
    IF selected_answer = JNull \/ selected_answer = JStr(<<>>)
    THEN "UNATTEMPTED"
    ELSE IF isAnswerCorrectReport(q.question_type, selected_answer,
                                  q.correct_answer)
    THEN "CORRECT"
    ELSE "INCORRECT"

\* (q.subject || 'UNCATEGORIZED').toUpperCase()
SubjectOf(q) ==
    toUpperCase(IF q.subject # "" THEN q.subject ELSE "UNCATEGORIZED")

\* "Dynamically create subject stats if they don't exist".
WithSubject(r, subject) ==
    IF subject \in DOMAIN r.subjectStats THEN r
    ELSE [r EXCEPT !.subjectStats = (subject :> newSubjectStats) @@ @]

\* The counters of the status, then the push of the question's analysis.
CountAndPush(r, link, q, subject, selected_answer, status) ==
    [(CASE status = "UNATTEMPTED" -> CountUnattempted(r, subject)
        [] status = "CORRECT" -> CountCorrect(r, subject)
        [] status = "INCORRECT" -> CountIncorrect(r, subject))
     EXCEPT !.questions =
        Append(@, [question_id |-> q.question_id,
                   question_number |-> link.question_number,
                   subject |-> q.subject,
                   correct_answer |-> q.correct_answer,
                   selected_answer |-> selected_answer,
                   status |-> status])]

\* The loop's body for a link it does not skip, q being its question and
\* selected_answer what `answerMap.get(question_id) || null` gave.
ReportBody(r, link, q, selected_answer) ==
    CountAndPush(WithSubject(r, SubjectOf(q)), link, q, SubjectOf(q),
                 selected_answer, ReportStatus(q, selected_answer))

\* One iteration of the report's loop over questionLinks.
ReportIteration(r, link, answerMap) ==
    IF Falsy(ReportQuestion(link)) THEN r
    ELSE ReportBody(r, link, ReportQuestion(link),
            OrNull(answerMapGet(answerMap,
                                ReportQuestion(link).question_id)))

RECURSIVE ReportLoop(_, _, _)
ReportLoop(r, questionLinks, answerMap) ==
    IF Len(questionLinks) = 0 THEN r
    ELSE ReportLoop(ReportIteration(r, Head(questionLinks), answerMap),
                    Tail(questionLinks), answerMap)

\* "Calculate scores" with the subjects' incorrect answers not deducted.
ReportScores_NoSubjectPenalty(r) ==
    [r EXCEPT
        !.totalScore = (r.totalCorrect * 4) - (r.totalIncorrect * 1),
        !.subjectStats =
            [sub \in DOMAIN r.subjectStats |->
                [r.subjectStats[sub] EXCEPT
                    !.score = r.subjectStats[sub].correct * 4]]]

\* "Calculate scores": the total and each subject's score.
ReportScores(r) ==
    [r EXCEPT
        !.totalScore = (r.totalCorrect * 4) - (r.totalIncorrect * 1),
        !.subjectStats =
            [sub \in DOMAIN r.subjectStats |->
                [r.subjectStats[sub] EXCEPT
                    !.score = (r.subjectStats[sub].correct * 4)
                              - (r.subjectStats[sub].incorrect * 1)]]]

\* The report's effect without the comparison of user_id with the user.
generateReport_NoOwnerCheck(fetchOk) ==
    /\ page = "report"
    /\ IF sessionUser = NoUser
       THEN /\ page' = "login"
            /\ UNCHANGED <<reportData, error>>
       ELSE IF ~fetchOk \/ attempt = NoRow
       THEN /\ error' = TRUE
            /\ UNCHANGED <<page, reportData>>
       ELSE /\ reportData' =
                  ReportScores(ReportLoop(newReportData, links, responses))
            /\ UNCHANGED <<page, error>>
    /\ UNCHANGED <<sessionUser, inst, uiVars, storeVars, saveVars,
                   submissions, links, response, judgeVars>>

\* The report page's effect. fetchOk: its three selects succeed.
generateReport(fetchOk) ==
    /\ page = "report"
    /\ IF sessionUser = NoUser
       THEN /\ page' = "login"
            /\ UNCHANGED <<reportData, error>>
       ELSE IF ~fetchOk \/ attempt = NoRow \/ attempt.user_id # sessionUser
       THEN /\ error' = TRUE
            /\ UNCHANGED <<page, reportData>>
       ELSE /\ reportData' =
                  ReportScores(ReportLoop(newReportData, links, responses))
            /\ UNCHANGED <<page, error>>
    /\ UNCHANGED <<sessionUser, inst, uiVars, storeVars, saveVars,
                   submissions, links, response, judgeVars>>

\* ------------------------------------------- the calculate-score function
\* The question the server's loop scores for a link.
ServerQuestion(link) ==
    IF ~Falsy(link.Questions) /\ IsArray(link.Questions)
    THEN IF Len(link.Questions.a) > 0 THEN link.Questions.a[1] ELSE JUndefined
    ELSE link.Questions

\* The loop's body for a link it does not skip; c holds totalCorrect and
\* totalIncorrect.
ServerBody(c, q, selected_answer) ==
    IF selected_answer = JNull THEN c
    ELSE IF isAnswerCorrectServer(q.question_type, selected_answer,
                                  q.correct_answer)
    THEN [c EXCEPT !.totalCorrect = @ + 1]
    ELSE [c EXCEPT !.totalIncorrect = @ + 1]

\* One iteration of the server's loop over questionLinks.
ServerIteration(c, link, answerMap) ==
    IF Falsy(ServerQuestion(link)) THEN c
    ELSE ServerBody(c, ServerQuestion(link),
            OrNull(answerMapGet(answerMap,
                                ServerQuestion(link).question_id)))

RECURSIVE ServerLoop(_, _, _)
ServerLoop(c, questionLinks, answerMap) ==
    IF Len(questionLinks) = 0 THEN c
    ELSE ServerLoop(ServerIteration(c, Head(questionLinks), answerMap),
                    Tail(questionLinks), answerMap)

finalScore(c) == (c.totalCorrect * 4) - (c.totalIncorrect * 1)

\* The steps of a request that can throw: the attemptId check, the select of
\* the attempt, of the answers, of the question links, and the update.
ServerSteps == {"attemptId", "attempt", "answers", "questions", "update"}

\* A request whose rejected update has nevertheless written the score.
calculateScore_UpdateWrites(failedAt) ==
    /\ attempt # NoRow
    /\ LET c == ServerLoop([totalCorrect |-> 0, totalIncorrect |-> 0],
                           links, responses)
       IN IF failedAt = "update"
          THEN /\ attempt' = [attempt EXCEPT
                                 !.final_score = JNum(finalScore(c) * Thousand)]
               /\ response' = [status |-> 400]
          ELSE IF failedAt \in ServerSteps
          THEN /\ response' = [status |-> 400]
               /\ UNCHANGED attempt
          ELSE /\ attempt' = [attempt EXCEPT
                                 !.final_score = JNum(finalScore(c) * Thousand)]
               /\ response' = [status |-> 200, score |-> finalScore(c),
                               totalCorrect |-> c.totalCorrect,
                               totalIncorrect |-> c.totalIncorrect]
    /\ UNCHANGED <<sessionUser, page, inst, uiVars, completedWrites,
                   responses, updateRejected, saveVars, submissions, links,
                   reportData, error, judgeVars>>

\* One request to calculate-score. failedAt: the step that throws, "none"
\* when every step succeeds; each throw lands in the one catch. The response
\* record also keeps the two counters the score was computed from.
calculateScore(failedAt) ==
    /\ attempt # NoRow
    /\ LET c == ServerLoop([totalCorrect |-> 0, totalIncorrect |-> 0],
                           links, responses)
       IN IF failedAt \in ServerSteps
          THEN /\ response' = [status |-> 400]
               /\ UNCHANGED attempt
          ELSE /\ attempt' = [attempt EXCEPT
                                 !.final_score = JNum(finalScore(c) * Thousand)]
               /\ response' = [status |-> 200, score |-> finalScore(c),
                               totalCorrect |-> c.totalCorrect,
                               totalIncorrect |-> c.totalIncorrect]
    /\ UNCHANGED <<sessionUser, page, inst, uiVars, completedWrites,
                   responses, updateRejected, saveVars, submissions, links,
                   reportData, error, judgeVars>>

\* ------------------------------------------------- the judges, side by side
JudgeTypes == {"SINGLE_CHOICE", "NUMERICAL", "MULTIPLE_CHOICE"}

JudgeSelected ==
    {JNull, JUndefined, JStr(<<>>), JStr(<<"A">>), JStr(<<"B">>),
     JStr(<<"3">>), JNum(3 * Thousand), JNum(0), JNum(9995),
     JStr(<<"1", "0">>), JStr(<<"9", ".", "9", "8">>),
     JStr(<<" ", "1", "0", "k", "g">>), JStr(<<"-", "3">>),
     JArr(<<JStr(<<"A">>)>>), JStr(<<"9", ".", "9", "9", "1">>),
     JStr(<<"1", "0", ".", "0", "1", "1">>)}

JudgeCorrect ==
    {JNull, JStr(<<"A">>), JArr(<<>>), JArr(<<JStr(<<"A">>)>>),
     JArr(<<JStr(<<"A">>), JStr(<<"B">>)>>), JArr(<<JStr(<<"3">>)>>),
     JArr(<<JNum(3 * Thousand)>>), JArr(<<JNum(10 * Thousand)>>),
     JArr(<<JStr(<<"1", "0", ".", "0", "0", "4">>)>>), JArr(<<JNull>>),
     JArr(<<JStr(<<"x">>)>>)}

\* The report page judges the triple.
JudgeInReport ==
    /\ judgeCase # NoRow
    /\ verdictReport = <<>>
    /\ verdictReport' = <<isAnswerCorrectReport(judgeCase.qType,
                              judgeCase.selected, judgeCase.correct)>>
    /\ UNCHANGED <<sessionUser, page, inst, uiVars, storeVars, saveVars,
                   submissions, links, reportData, error, response,
                   judgeCase, verdictServer>>

\* The calculate-score function judges the triple.
JudgeOnServer ==
    /\ judgeCase # NoRow
    /\ verdictServer = <<>>
    /\ verdictServer' = <<isAnswerCorrectServer(judgeCase.qType,
                              judgeCase.selected, judgeCase.correct)>>
    /\ UNCHANGED <<sessionUser, page, inst, uiVars, storeVars, saveVars,
                   submissions, links, reportData, error, response,
                   judgeCase, verdictReport>>

\* ------------------------------------------------------- specifications
Next ==
    \/ \E ok \in BOOLEAN : handleStartTest(ok)
    \/ \E a, q \in BOOLEAN : fetchTestData(a, q)
    \/ \E e \in inflight, ok \in BOOLEAN : UpsertResolves(e, ok)
    \/ handleSaveAndNext
    \/ \E i \in 0..(NQ - 1) : jumpToQuestion(i)
    \/ handleMarkForReview
    \/ handleClearResponse
    \/ \E v \in AnswerInputs : handleAnswerChange(v)
    \/ Tick
    \/ \E c \in BOOLEAN : SubmitClick(c)
    \/ \E c \in BOOLEAN : TimerExpires(c)
    \/ Render
    \/ \E s \in submissions, ok \in BOOLEAN : SubmitUpdate(s, ok)

\* One session of the test page per attempt.
Spec == Init /\ [][Next]_vars

\* The same, with the test page opened again for the attempt.
NextReopen ==
    \/ Next
    \/ OpenTestPage

SpecReopen == Init /\ [][NextReopen]_vars

\* The URL of the test page or of the report page of a started attempt is
\* opened by its owner, by another user or without a session.
InitAccess ==
    /\ sessionUser \in {NoUser, "u1"}
    /\ page \in {"test", "report"}
    /\ attempt \in {[t |-> "row", user_id |-> u, status |-> "STARTED",
                     end_time |-> 0, final_score |-> JNull]
                    : u \in {"u1", "u2"}}
    /\ completedWrites = 0
    /\ responses = [q \in QIds |-> NoRow]
    /\ links = ObjectLinks
    /\ NothingMounted
    /\ NothingScored
    /\ NothingJudged

NextAccess ==
    \/ \E a, q \in BOOLEAN : fetchTestData(a, q)
    \/ \E e \in inflight, ok \in BOOLEAN : UpsertResolves(e, ok)
    \/ handleSaveAndNext
    \/ \E i \in 0..(NQ - 1) : jumpToQuestion(i)
    \/ handleMarkForReview
    \/ handleClearResponse
    \/ \E v \in AnswerInputs : handleAnswerChange(v)
    \/ Tick
    \/ \E c \in BOOLEAN : SubmitClick(c)
    \/ \E c \in BOOLEAN : TimerExpires(c)
    \/ Render
    \/ \E s \in submissions, ok \in BOOLEAN : SubmitUpdate(s, ok)
    \/ \E ok \in BOOLEAN : generateReport(ok)

SpecAccess == InitAccess /\ [][NextAccess]_vars

\* A completed attempt with its stored responses and the link rows of its
\* test, as the report page and calculate-score find them.
InitScore ==
    /\ sessionUser \in {NoUser, "u1"}
    /\ page = "report"
    /\ attempt \in {[t |-> "row", user_id |-> u, status |-> "COMPLETED",
                     end_time |-> 1, final_score |-> JNull]
                    : u \in {"u1", "u2"}}
    /\ completedWrites = 1
    /\ responses \in [QIds -> StoredRows]
    /\ \E ls \in [1..NQ -> UNION {LinkRows(n) : n \in 1..NQ}] :
          /\ \A n \in 1..NQ : ls[n] \in LinkRows(n)
          /\ links = ls
    /\ NothingMounted
    /\ NothingScored
    /\ NothingJudged

NextScore ==
    \/ \E ok \in BOOLEAN : generateReport(ok)
    \/ \E failedAt \in ServerSteps \cup {"none"} : calculateScore(failedAt)

\* The scoring engine, on the report page and in calculate-score.
SpecScore == InitScore /\ [][NextScore]_vars

\* A triple handed to both judges.
InitJudge ==
    /\ sessionUser = "u1"
    /\ page = "report"
    /\ attempt = NoRow
    /\ completedWrites = 0
    /\ responses = [q \in QIds |-> NoRow]
    /\ links = ObjectLinks
    /\ NothingMounted
    /\ NothingScored
    /\ judgeCase \in [qType : JudgeTypes, selected : JudgeSelected,
                       correct : JudgeCorrect]
    /\ verdictReport = <<>>
    /\ verdictServer = <<>>

NextJudge ==
    \/ JudgeInReport
    \/ JudgeOnServer

SpecJudge == InitJudge /\ [][NextJudge]_vars

\* ---------------------------------------------------------------- claims
\* C1: at most one submission of a session is in flight at any time: the
\* timer's and the user's triggers collapse to a single submission.
C1_OneSubmissionInFlight ==
    \A s1, s2 \in submissions : s1.inst = s2.inst => s1 = s2

\* C2: when the timer effect runs at timeLeft = 0 in a loaded, not submitting
\* session, that run puts the attempt into submission.
C2_ExpiryForcesSubmission ==
    [][(~timerEffectRan /\ timerEffectRan' /\ timeLeft = 0)
        => (isSubmittingState' /\ submissions' # submissions)]_vars

\* C3: the upsert markForReviewAndNext issues for the question it leaves
\* carries action marked_for_review and that question's selected_answer.
C3_MarkedSaveCarriesMark ==
    [][(handleMarkForReview /\ currentQuestionIndex' # currentQuestionIndex)
        => \E e \in inflight' \ inflight :
              /\ e.question_id = questions[currentQuestionIndex + 1]
              /\ e.row.action = "marked_for_review"
              /\ e.row.selected_answer =
                    testState[e.question_id].selected_answer]_vars

\* Submission s ends in this step (its update has been answered).
Ends(s) == \A s2 \in submissions' : s2.save # s.save

\* C4: a submission whose final save was rejected ends without marking the
\* attempt COMPLETED.
C4_FailedSaveAbortsSubmit ==
    [][\A s \in submissions :
          (s.saved = "failed" /\ Ends(s)) => attempt' = attempt]_vars

\* C5: when the update of the attempt is rejected, the submitting flag of the
\* session goes back to false and the attempt row is left as it was.
C5_RejectedUpdateRollsBack ==
    [][\A s \in submissions :
          (Ends(s) /\ completedWrites' = completedWrites
           /\ page = "test" /\ s.inst = inst)
          => (~isSubmittingState' /\ attempt' = attempt)]_vars

\* C5 witness: after a rejected update a later submission completed the
\* attempt.
C5_Witness ==
    /\ updateRejected
    /\ attempt # NoRow
    /\ attempt.status = "COMPLETED"
    /\ completedWrites = 1

\* C6: once COMPLETED, the attempt keeps its status and end_time and no
\* further COMPLETED/end_time write is applied to it (the status never goes
\* back to STARTED, the write is applied once).
C6_CompletedOnce ==
    [][(attempt # NoRow /\ attempt.status = "COMPLETED")
        => /\ attempt'.status = attempt.status
           /\ attempt'.end_time = attempt.end_time
           /\ completedWrites' = completedWrites]_vars

\* C7: once every issued upsert has been answered, none rejected, the stored
\* response of each question is the payload of its latest issued upsert.
C7_LatestSaveWins ==
    (inflight = {} /\ ~saveFailed)
    => \A q \in QIds : lastIssued[q] # NoRow => responses[q] = lastIssued[q]

\* C8: for the same link rows and stored responses, the report's totalScore,
\* totalCorrect and totalIncorrect equal the score calculate-score persisted
\* as final_score and the counts it was computed from.
C8_ReportEqualsServerScore ==
    (reportData # NoRow /\ response # NoRow /\ response.status = 200)
    => /\ JNum(reportData.totalScore * Thousand) = attempt.final_score
       /\ reportData.totalScore = response.score
       /\ reportData.totalCorrect = response.totalCorrect
       /\ reportData.totalIncorrect = response.totalIncorrect

\* C9: the judge of the report page and the judge of calculate-score return
\* the same boolean for every triple (question_type, selected, correct).
C9_JudgesAgree ==
    (verdictReport # <<>> /\ verdictServer # <<>>)
    => verdictReport = verdictServer

\* C9 witness: both judges have run on a triple they accept only through
\* String() (the number 3 against the key "3").
C9_Witness ==
    /\ verdictReport = <<TRUE>>
    /\ verdictServer = <<TRUE>>
    /\ judgeCase.qType = "SINGLE_CHOICE"
    /\ judgeCase.selected = JNum(3 * Thousand)
    /\ judgeCase.correct = JArr(<<JStr(<<"3">>)>>)

RECURSIVE SumOver(_, _)
\* The sum of f over the set S of its arguments.
SumOver(f, S) ==
    IF S = {} THEN 0
    ELSE f[CHOOSE x \in S : TRUE]
         + SumOver(f, S \ {CHOOSE x \in S : TRUE})

\* The sum of one field over the subject buckets of a report.
SubjectSum(r, field) ==
    SumOver([sub \in DOMAIN r.subjectStats |-> r.subjectStats[sub][field]],
            DOMAIN r.subjectStats)

\* C10: in every computed report the subject buckets' scores sum to
\* totalScore, and their correct, incorrect and unattempted counts sum to
\* the corresponding totals.
C10_SubjectSumsEqualTotals ==
    reportData # NoRow
    => /\ SubjectSum(reportData, "score") = reportData.totalScore
       /\ SubjectSum(reportData, "correct") = reportData.totalCorrect
       /\ SubjectSum(reportData, "incorrect") = reportData.totalIncorrect
       /\ SubjectSum(reportData, "unattempted") = reportData.totalUnattempted

\* C10 witness: a report over two subject buckets with a correct and an
\* incorrect answer.
C10_Witness ==
    /\ reportData # NoRow
    /\ Cardinality(DOMAIN reportData.subjectStats) = 2
    /\ reportData.totalCorrect = 1
    /\ reportData.totalIncorrect = 1

\* The questions of report r listed with the status.
ListedWith(r, status) ==
    {i \in DOMAIN r.questions : r.questions[i].status = status}

\* The questions of report r listed under the subject bucket.
ListedUnder(r, sub) ==
    {i \in DOMAIN r.questions : SubjectOf(r.questions[i]) = sub}

\* C11: the score is correct * 4 - incorrect * 1, unattempted questions
\* giving 0: for the report's total, for each of its subject buckets, and
\* for the final_score calculate-score persists.
C11_ScoringRule ==
    /\ reportData # NoRow =>
          /\ reportData.totalScore =
                 4 * Cardinality(ListedWith(reportData, "CORRECT"))
                 - Cardinality(ListedWith(reportData, "INCORRECT"))
          /\ \A sub \in DOMAIN reportData.subjectStats :
                 reportData.subjectStats[sub].score =
                    4 * Cardinality(ListedWith(reportData, "CORRECT")
                                    \cap ListedUnder(reportData, sub))
                    - Cardinality(ListedWith(reportData, "INCORRECT")
                                  \cap ListedUnder(reportData, sub))
    /\ (response # NoRow /\ response.status = 200) =>
          /\ response.score =
                 4 * response.totalCorrect - response.totalIncorrect
          /\ attempt.final_score = JNum(response.score * Thousand)

\* C11 witness: a report and a persisted score over a correct, an incorrect
\* answer in the same subject bucket.
C11_Witness ==
    /\ reportData # NoRow
    /\ response # NoRow
    /\ response.status = 200
    /\ attempt.final_score = JNum(3 * Thousand)
    /\ reportData.totalScore = 3
    /\ Cardinality(DOMAIN reportData.subjectStats) = 1

\* The stored answer of a question is absent, null or the empty string.
NoStoredAnswer(question_id) ==
    IF responses[question_id] = NoRow THEN TRUE
    ELSE responses[question_id].selected_answer \in {JNull, JStr(<<>>)}

\* The status C12 requires for a resolved question q.
RequiredStatus(q) ==
    IF NoStoredAnswer(q.question_id) THEN "UNATTEMPTED"
    ELSE IF isAnswerCorrectReport(q.question_type,
               responses[q.question_id].selected_answer, q.correct_answer)
    THEN "CORRECT"
    ELSE "INCORRECT"

\* C12: every question the report lists is UNATTEMPTED exactly when its
\* stored answer is absent, null or the empty string, and otherwise CORRECT
\* or INCORRECT as the judge says for the stored answer.
C12_Classification ==
    reportData # NoRow
    => \A i \in DOMAIN reportData.questions :
          reportData.questions[i].status =
             RequiredStatus(
                ReportQuestion(links[reportData.questions[i].question_number]))

\* The join of the link row holds a Questions row: as an object, or as the
\* first element of an array.
Resolved(link) ==
    \/ link.Questions.t = "object"
    \/ /\ link.Questions.t = "array"
       /\ Len(link.Questions.a) > 0
       /\ link.Questions.a[1].t = "object"

ResolvedLinks == {n \in DOMAIN links : Resolved(links[n])}

\* C13: a link whose Questions row is not resolved is skipped (it is not in
\* the report's question list and in none of the counts), and every link
\* whose row is resolved is listed and counted exactly once.
C13_UnresolvedSkipped ==
    /\ reportData # NoRow =>
          /\ \A n \in DOMAIN links :
                 Cardinality({i \in DOMAIN reportData.questions :
                                 reportData.questions[i].question_number = n})
                 = IF n \in ResolvedLinks THEN 1 ELSE 0
          /\ reportData.totalCorrect + reportData.totalIncorrect
             + reportData.totalUnattempted = Cardinality(ResolvedLinks)
          /\ SubjectSum(reportData, "correct")
             + SubjectSum(reportData, "incorrect")
             + SubjectSum(reportData, "unattempted")
             = Cardinality(ResolvedLinks)
    /\ (response # NoRow /\ response.status = 200) =>
          response.totalCorrect + response.totalIncorrect
          = Cardinality({n \in ResolvedLinks :
               ~Falsy(answerMapGet(responses,
                                   ServerQuestion(links[n]).question_id))})

\* The session moves to another question in this step.
Navigates ==
    /\ inst' = inst
    /\ Len(questions) > 0
    /\ currentQuestionIndex' # currentQuestionIndex

\* C14: navigating to a not_visited question makes it unanswered, navigating
\* to any other question leaves its status and selected_answer as they were;
\* and within a session no question goes back to not_visited.
C14_VisitTransition ==
    [][/\ Navigates =>
            IF testState[questions[currentQuestionIndex' + 1]].status
               = "not_visited"
            THEN testState'[questions[currentQuestionIndex' + 1]] =
                    [testState[questions[currentQuestionIndex' + 1]]
                        EXCEPT !.status = "unanswered"]
            ELSE testState'[questions[currentQuestionIndex' + 1]] =
                    testState[questions[currentQuestionIndex' + 1]]
       /\ inst' = inst =>
            \A q \in DOMAIN testState :
               testState[q].status # "not_visited"
               => testState'[q].status # "not_visited"]_vars

\* C14 witness: the session has moved to question 2 (not_visited until
\* then), answered it, and moved back to question 1, visited before.
C14_Witness ==
    /\ page = "test"
    /\ ~loading
    /\ currentQuestionIndex = 0
    /\ testState[questions[2]].status = "answered"
    /\ testState[questions[1]].status = "marked_for_review"

\* C15: an answer change on the active question sets its selected_answer to
\* the value and its status to answered when the value is neither null nor
\* empty, to unanswered otherwise, whatever the status was before.
C15_AnswerChange ==
    [][\A v \in AnswerInputs :
          handleAnswerChange(v) =>
             /\ testState'[questions[currentQuestionIndex + 1]]
                    .selected_answer = v
             /\ testState'[questions[currentQuestionIndex + 1]].status =
                    IF v # JNull /\ v # JStr(<<>>)
                    THEN "answered" ELSE "unanswered"]_vars

\* C15 witness: an answer change has given the active question, the last
\* one, the empty value (only an answer change stores it).
C15_Witness ==
    /\ page = "test"
    /\ ~loading
    /\ currentQuestionIndex = NQ - 1
    /\ testState[questions[NQ]].status = "unanswered"
    /\ testState[questions[NQ]].selected_answer = JStr(<<>>)

\* Each judge that has run on the triple returned b.
JudgedAs(b) ==
    /\ verdictReport # <<>> => verdictReport = <<b>>
    /\ verdictServer # <<>> => verdictServer = <<b>>

BothJudged == verdictReport # <<>> /\ verdictServer # <<>>

\* C16: for every question_type and correct_answer, both judges return false
\* when selected is null, undefined or the empty string.
C16_NothingSelectedIsFalse ==
    (judgeCase # NoRow
     /\ judgeCase.selected \in {JNull, JUndefined, JStr(<<>>)})
    => JudgedAs(FALSE)

\* C16 witness: both judges have run on null against the key [null] of a
\* SINGLE_CHOICE question, whose string forms are equal.
C16_Witness ==
    /\ BothJudged
    /\ judgeCase.qType = "SINGLE_CHOICE"
    /\ judgeCase.selected = JNull
    /\ judgeCase.correct = JArr(<<JNull>>)

\* The triple has a selected value and a non-empty key.
WellFormedCase ==
    /\ judgeCase # NoRow
    /\ judgeCase.selected \notin {JNull, JUndefined, JStr(<<>>)}
    /\ IsArray(judgeCase.correct)
    /\ Len(judgeCase.correct.a) > 0

\* C17: for SINGLE_CHOICE with a selected value and a non-empty key, both
\* judges return true exactly when the string form of selected equals the
\* string form of the key's first element, whatever the later elements are.
C17_SingleChoice ==
    (WellFormedCase /\ judgeCase.qType = "SINGLE_CHOICE")
    => JudgedAs(ToChars(judgeCase.selected)
                = ToChars(judgeCase.correct.a[1]))

\* C17 witness: both judges refused "B" against the key ["A", "B"].
C17_Witness ==
    /\ BothJudged
    /\ judgeCase.qType = "SINGLE_CHOICE"
    /\ judgeCase.selected = JStr(<<"B">>)
    /\ judgeCase.correct = JArr(<<JStr(<<"A">>), JStr(<<"B">>)>>)
    /\ verdictReport = <<FALSE>>
    /\ verdictServer = <<FALSE>>

\* The case is NUMERICAL, selected being s and the key's first element c.
NumericalCase(s, c) ==
    /\ WellFormedCase
    /\ judgeCase.qType = "NUMERICAL"
    /\ judgeCase.selected = s
    /\ judgeCase.correct.a[1] = c

\* C18: for NUMERICAL with a selected value and a non-empty key, both judges
\* return false when selected or the key's first element does not parse as
\* a number, and otherwise true exactly when the two parsed values differ by
\* strictly less than 0.01; 9.995 against 10 is correct, 9.98 against 10 is
\* not. (The parsed values are exact here: no two of the inputs are 0.01
\* apart as decimals.)
C18_Numerical ==
    /\ (WellFormedCase /\ judgeCase.qType = "NUMERICAL")
       => JudgedAs(/\ parseFloat(judgeCase.selected) # JNaN
                   /\ parseFloat(judgeCase.correct.a[1]) # JNaN
                   /\ Abs(parseFloat(judgeCase.selected).n
                          - parseFloat(judgeCase.correct.a[1]).n)
                      < Tolerance)
    /\ NumericalCase(JNum(9995), JNum(10 * Thousand)) => JudgedAs(TRUE)
    /\ NumericalCase(JStr(<<"9", ".", "9", "8">>), JNum(10 * Thousand))
       => JudgedAs(FALSE)
    /\ NumericalCase(JStr(<<"A">>), JNum(10 * Thousand)) => JudgedAs(FALSE)
    /\ NumericalCase(JStr(<<"1", "0">>), JStr(<<"x">>)) => JudgedAs(FALSE)

\* C18 witness: both judges refused 10.011 against the key [10], which lies
\* more than 0.01 above it.
C18_Witness ==
    /\ BothJudged
    /\ NumericalCase(JStr(<<"1", "0", ".", "0", "1", "1">>),
                     JNum(10 * Thousand))
    /\ verdictReport = <<FALSE>>
    /\ verdictServer = <<FALSE>>

\* C19: whatever is selected, both judges return false when the key is not
\* a non-empty array or the type is neither SINGLE_CHOICE nor NUMERICAL;
\* a judge that has run has returned a boolean.
C19_Conservative ==
    /\ verdictReport \in {<<>>, <<TRUE>>, <<FALSE>>}
    /\ verdictServer \in {<<>>, <<TRUE>>, <<FALSE>>}
    /\ (/\ judgeCase # NoRow
        /\ \/ ~IsArray(judgeCase.correct)
           \/ Len(judgeCase.correct.a) = 0
           \/ judgeCase.qType \notin {"SINGLE_CHOICE", "NUMERICAL"})
       => JudgedAs(FALSE)

\* C19 witness: both judges refused "A" against the key ["A"] of a
\* MULTIPLE_CHOICE question.
C19_Witness ==
    /\ BothJudged
    /\ judgeCase.qType = "MULTIPLE_CHOICE"
    /\ judgeCase.selected = JStr(<<"A">>)
    /\ judgeCase.correct = JArr(<<JStr(<<"A">>)>>)
    /\ verdictReport = <<FALSE>>
    /\ verdictServer = <<FALSE>>

\* C20: a request to calculate-score that fails at any of its steps answers
\* with status 400 and leaves the attempt row, final_score included, as it
\* was; a request answers with a score only when no step failed, and the
\* row's final_score is then that score.
C20_FailureLeavesScore ==
    [][\A failedAt \in ServerSteps \cup {"none"} :
          calculateScore(failedAt)
          => IF failedAt \in ServerSteps
             THEN /\ response'.status = 400
                  /\ DOMAIN response' = {"status"}
                  /\ attempt' = attempt
             ELSE /\ response'.status = 200
                  /\ attempt'.final_score
                     = JNum(response'.score * Thousand)]_vars

\* C20 witness: a request failed after an earlier one had persisted the
\* score 3, which the row still holds.
C20_Witness ==
    /\ response # NoRow
    /\ response.status = 400
    /\ attempt.final_score = JNum(3 * Thousand)

\* The actions a stored response may carry.
PersistedActions == {"unanswered", "answered", "marked_for_review"}

\* C21: every upsert the session issues, and so every stored response,
\* carries an action among unanswered, answered and marked_for_review: the
\* action is the status saveAnswerToDB reads from the ref, with not_visited
\* written as unanswered and every other status written as it is.
C21_ActionNormalised ==
    [][/\ \A st \in AnswerStatuses :
             dbAction(st) = IF st = "not_visited" THEN "unanswered" ELSE st
       /\ \A e \in inflight' \ inflight :
             /\ e.row.action \in PersistedActions
             /\ e.row.action = dbAction(testStateRef[e.question_id].status)
       /\ \A q \in QIds :
             responses'[q] # NoRow => responses'[q].action \in PersistedActions
      ]_vars

\* C21 witness: the store holds an upsert of question 1 with action
\* unanswered and one of question 2 with action marked_for_review.
C21_Witness ==
    /\ responses[1] # NoRow
    /\ responses[1].action = "unanswered"
    /\ responses[2] # NoRow
    /\ responses[2].action = "marked_for_review"

\* The store answers an upsert in this step.
SaveAnswered == \E e \in inflight : e \notin inflight'

\* C22: the store's answer to an upsert, a rejection included, issues no
\* further upsert and leaves the page, the active index and every
\* QuestionState as they are; and jumping to another in-bounds question is
\* possible and moves the active index there, the target no longer
\* not_visited, with upserts in flight or rejected or not.
C22_FailedSaveNeverBlocks ==
    [][/\ SaveAnswered
          => /\ nIssued' = nIssued
             /\ lastIssued' = lastIssued
             /\ page' = page
             /\ currentQuestionIndex' = currentQuestionIndex
             /\ testState' = testState
       /\ \A i \in 0..(NQ - 1) :
             (Active /\ RunOpen /\ i < Len(questions)
              /\ i # currentQuestionIndex)
             => ENABLED jumpToQuestion(i)
       /\ \A i \in 0..(NQ - 1) :
             (jumpToQuestion(i) /\ i < Len(questions)
              /\ i # currentQuestionIndex)
             => /\ currentQuestionIndex' = i
                /\ testState'[questions[i + 1]].status # "not_visited"
      ]_vars

\* C22 witness: the upsert of question 1 was rejected, the session has since
\* left question 2 as well and is back on question 1, the rejected upsert
\* the only one issued for question 1.
C22_Witness ==
    /\ page = "test"
    /\ saveFailed
    /\ inflight = {}
    /\ nIssued = 2
    /\ responses[1] = NoRow
    /\ responses[2] # NoRow
    /\ currentQuestionIndex = 0

\* The questions that have been the active question of the mounted page:
\* question 1 from the load on, any other from the navigation that promoted
\* it, no status ever going back to not_visited.
EverActive ==
    {q \in DOMAIN testState : testState[q].status # "not_visited"}

\* C23: the number of upserts issued never exceeds the number of distinct
\* questions that have been the active question, and no upsert is issued
\* for a question that has never been active.
C23_WritesBoundedByVisited ==
    /\ nIssued <= Cardinality(EverActive)
    /\ \A q \in QIds : lastIssued[q] # NoRow => q \in EverActive

\* The session is authenticated and the attempt belongs to its user.
Authorized ==
    /\ sessionUser # NoUser
    /\ attempt # NoRow
    /\ attempt.user_id = sessionUser

\* C24: the test page ends loading, and so lets answers be edited and saved,
\* only with a session whose user owns the attempt; report data is produced
\* only for such a session; in every other case no upsert is issued, no
\* response is stored and no report data exists.
C24_AuthorizationIsFatal ==
    /\ (page = "test" /\ ~loading) => Authorized
    /\ reportData # NoRow => Authorized
    /\ ~Authorized
       => /\ loading
          /\ testState = <<>>
          /\ nIssued = 0
          /\ \A q \in QIds : responses[q] = NoRow
          /\ attempt.status = "STARTED"
          /\ reportData = NoRow

\* C24 witness: the test page opened by u1 for the attempt of u2 has sent
\* the user to the dashboard, still loading.
C24_Witness ==
    /\ sessionUser = "u1"
    /\ attempt.user_id = "u2"
    /\ page = "dashboard"
    /\ loading

\* The indexes a call of navigateToQuestion is given in the model: those of
\* the palette, and one below and one above them.
NavTargets == (0 - 1)..NQ

\* C25: navigateToQuestion with a target below 0, at or above the number of
\* questions, or equal to the active index issues no upsert, changes no
\* QuestionState and leaves the active index as it is, so Save & Next on
\* the last question does nothing and handleMarkForReview there only marks
\* the active question; the active index stays within
\* [0, number of questions).
C25_NavigateNoOp ==
    [][/\ \A t \in NavTargets :
             (Active
              /\ (t < 0 \/ t >= Len(questions) \/ t = currentQuestionIndex)
              /\ navigateToQuestion(testState, t))
             => UNCHANGED <<currentQuestionIndex, testState, testStateRef,
                            saveVars>>
       /\ (handleSaveAndNext
           /\ currentQuestionIndex = Len(questions) - 1) => UNCHANGED vars
       /\ (handleMarkForReview
           /\ currentQuestionIndex = Len(questions) - 1)
          => /\ UNCHANGED <<currentQuestionIndex, saveVars>>
             /\ \A q \in DOMAIN testState :
                   q # questions[currentQuestionIndex + 1]
                   => testState'[q] = testState[q]
       /\ (page' = "test" /\ ~loading')
          => (currentQuestionIndex' >= 0
              /\ currentQuestionIndex' < Len(questions'))
      ]_vars

\* C25 witness: the session is on the last question, which it has marked
\* for review: the navigation of handleMarkForReview had no next question
\* to go to.
C25_Witness ==
    /\ page = "test"
    /\ ~loading
    /\ currentQuestionIndex = NQ - 1
    /\ testState[questions[NQ]].status = "marked_for_review"
    /\ lastIssued[questions[NQ]] = NoRow

\* The step leaves the active index, the QuestionState of every question but
\* the active one, the upserts issued and the stored responses as they are.
EditsActiveOnly ==
    /\ UNCHANGED <<currentQuestionIndex, saveVars, responses>>
    /\ DOMAIN testState' = DOMAIN testState
    /\ \A q \in DOMAIN testState :
          q # questions[currentQuestionIndex + 1]
          => testState'[q] = testState[q]

\* C26: handleAnswerChange and handleClearResponse change the QuestionState
\* of the active question only, move no index and issue no upsert, the
\* cleared question holding null and unanswered; an upsert is issued only by
\* a step that moves the active index or starts a submission.
C26_EditsStayLocal ==
    [][/\ \A v \in AnswerInputs : handleAnswerChange(v) => EditsActiveOnly
       /\ handleClearResponse
          => /\ EditsActiveOnly
             /\ testState'[questions[currentQuestionIndex + 1]]
                = [status |-> "unanswered", selected_answer |-> JNull]
       /\ nIssued' # nIssued
          => \/ currentQuestionIndex' # currentQuestionIndex
             \/ \E s \in submissions' : s.save = nIssued'
      ]_vars

\* C26 witness: question 1 was saved with the answer "A" when the session
\* left it; the session is back on it and has cleared it, in memory only.
C26_Witness ==
    /\ page = "test"
    /\ ~loading
    /\ currentQuestionIndex = 0
    /\ testState[questions[1]] = [status |-> "unanswered",
                                  selected_answer |-> JNull]
    /\ lastIssued[questions[1]] # NoRow
    /\ lastIssued[questions[1]].selected_answer = JStr(<<"A">>)
    /\ responses[questions[1]] = lastIssued[questions[1]]
    /\ nIssued = 2

\* C27: timeLeft changes only on a loaded test page with no submission in
\* flight and isSubmitting false, and then by exactly -1; it never
\* increases and never goes below 0.
C27_Countdown ==
    [][/\ timeLeft' # timeLeft
          => /\ page = "test"
             /\ ~loading
             /\ ~isSubmitting
             /\ submissions = {}
             /\ timeLeft' = timeLeft - 1
       /\ timeLeft' <= timeLeft
       /\ timeLeft' >= 0
      ]_vars

\* C27 witness: the countdown has reached 1 and stands still under a
\* submission in flight.
C27_Witness ==
    /\ page = "test"
    /\ ~loading
    /\ timeLeft = 1
    /\ isSubmitting
    /\ submissions # {}

\* C28: once loaded, testState holds one QuestionState for each loaded
\* question_id and for nothing else, and the status of the active question
\* is not not_visited.
C28_ActiveIsVisited ==
    ~loading
    => /\ DOMAIN testState = {questions[i] : i \in 1..Len(questions)}
       /\ Cardinality(DOMAIN testState) = Len(questions)
       /\ Len(questions) > 0
          => testState[questions[currentQuestionIndex + 1]].status
             # "not_visited"

\* C28 witness: the first navigation of the session has made question 2
\* the active question, promoted to unanswered.
C28_Witness ==
    /\ page = "test"
    /\ ~loading
    /\ nIssued = 1
    /\ currentQuestionIndex = 1
    /\ testState[questions[2]].status = "unanswered"
    /\ testState[questions[1]].status = "unanswered"

\* selected_answer holds no answer: null or the empty string.
NoAnswer(selected_answer) == selected_answer \in {JNull, JStr(<<>>)}

\* C29: in testState a question with status answered holds an answer, and a
\* question with status not_visited or unanswered holds none; a question
\* marked for review may hold either.
C29_StatusMatchesAnswer ==
    \A q \in DOMAIN testState :
       /\ testState[q].status = "answered"
          => ~NoAnswer(testState[q].selected_answer)
       /\ testState[q].status \in {"not_visited", "unanswered"}
          => NoAnswer(testState[q].selected_answer)

\* C29 witness: question 1 is marked for review with the answer "A",
\* question 2 is unanswered with its input emptied.
C29_Witness ==
    /\ page = "test"
    /\ ~loading
    /\ testState[questions[1]] = [status |-> "marked_for_review",
                                  selected_answer |-> JStr(<<"A">>)]
    /\ testState[questions[2]] = [status |-> "unanswered",
                                  selected_answer |-> JStr(<<>>)]

\* Every upsert issued has been answered, none rejected, and the store holds
\* for each question the payload of its latest upsert, as it does when the
\* upserts are applied in issue order.
SavesAppliedInOrder ==
    /\ inflight = {}
    /\ ~saveFailed
    /\ \A q \in QIds : lastIssued[q] # NoRow => responses[q] = lastIssued[q]

\* The two hold the same answer, null and the empty string both being none.
SameAnswer(a, b) == a = b \/ (NoAnswer(a) /\ NoAnswer(b))

\* C30: when the attempt is COMPLETED and every upsert of the session has
\* been applied in issue order, the stored selected_answer of every question
\* that has been active is the selected_answer testState holds for it.
C30_NoAnswerLost ==
    (attempt # NoRow /\ attempt.status = "COMPLETED" /\ SavesAppliedInOrder)
    => \A q \in EverActive :
          /\ responses[q] # NoRow
          /\ SameAnswer(responses[q].selected_answer,
                        testState[q].selected_answer)

\* C31: once the attempt is COMPLETED no stored response of it is inserted
\* or changed: not by an upsert still in flight when the update was
\* applied, not by a later mount of the test page.
C31_ResponsesFrozen ==
    [][(attempt # NoRow /\ attempt.status = "COMPLETED")
        => responses' = responses]_vars
====
